---- MODULE Spec2Model ----
(***************************************************************************)
(* Model of src/utils/equal_loudness_contor_2023ISO_params.py:             *)
(*   iso226(phon, fq=None, sq=False, mirror=0)  and the volume formula of  *)
(*   normalize_loudness_direct,                                            *)
(* and of src/utils/vol_adjustment_slider_object_linux.py:                 *)
(*   VolumeAdjuster.adjust_volume.                                         *)
(*                                                                         *)
(* Number representation (TLC has 32-bit integers only):                   *)
(*   frequencies            tenths of a hertz       (31.5 Hz  = 315)       *)
(*   alpha_f, L_U, T_f, SPL thousandths             (78.1 dB  = 78100)     *)
(*   phon levels            whole phon                                     *)
(*   A_f, volumes           millionths                                     *)
(* An array of integer dtype holds whole numbers only; storing a real into *)
(* it keeps the integer part (AsType).                                     *)
(***************************************************************************)
EXTENDS Integers, Sequences, FiniteSets, TLC

VARIABLES
    phon,         \* argument phon after np.atleast_1d: sequence of phon levels
    fq_none,      \* TRUE when the argument fq is None
    fq,           \* argument fq: sequence of frequencies (<<>> when fq is None)
    fq_int,       \* TRUE when the array fq has an integer dtype
    sq,           \* argument sq
    mirror,       \* argument mirror (0-based index into the table)
    pc,           \* position in iso226
    warnings,     \* the warnings printed so far
    params,       \* the local dict params
    f_squeeze,    \* len(f) x len(phon) matrix of frequencies
    spl_squeeze,  \* len(f) x len(phon) matrix of SPL values
    p,            \* loop variable of "for p in range(len(phon))", 1-based
    trace,        \* per finished iteration: table size used, branch taken, real values
    result,       \* what the call returned
    v_pc,         \* position in the volume computation
    v_a, v_b,     \* calibration arguments a and b, thousandths
    v_spl,        \* the SPL the volume formula is applied to, thousandths
    volumes,      \* the computed volume, millionths
    is_windows,            \* self.is_windows
    sounds_dict,           \* the keys of self.sounds_dict, in insertion order
    reference_sound_file,  \* TRUE when self.reference_sound_file is set
    lang,                  \* self.lang
    shuffle,               \* self.shuffle
    start_value,           \* self.start_value, in halves
    increment_rate,        \* self.increment_rate, in halves
    adj_pc,                \* position in adjust_volume
    error,                 \* the exception adjust_volume ended with, or "none"
    sound_names,           \* the local list sound_names
    current_index,         \* the local current_index (0-based, as in the code)
    current_sound,         \* the name whose Sound is current_sound, 0 for None
    slider_vol,            \* the local dict slider_vol: name -> volume
    last_key,              \* the local last_key: "None", "1" or "2"
    last_time,             \* the local last_time against the clock: "None",
                           \* "recent" (less than repeat_time ago) or "due"
    rating,                \* vol_slider.getRating(), in halves, -1 for None
    current_volume,        \* the local current_volume, in halves
    keys,                  \* the key events of this iteration not yet handled
    broke                  \* TRUE when the loop was left by break

vars == <<phon, fq_none, fq, fq_int, sq, mirror, pc, warnings, params,
          f_squeeze, spl_squeeze, p, trace, result, v_pc, v_a, v_b, v_spl, volumes,
          is_windows, sounds_dict, reference_sound_file, lang, shuffle,
          start_value, increment_rate, adj_pc, error, sound_names,
          current_index, current_sound, slider_vol, last_key, last_time,
          rating, current_volume, keys, broke>>

isoVars == <<phon, fq_none, fq, fq_int, sq, mirror, pc, warnings, params,
             f_squeeze, spl_squeeze, p, trace, result>>

volVars == <<v_pc, v_a, v_b, v_spl, volumes>>

adjVars == <<is_windows, sounds_dict, reference_sound_file, lang, shuffle,
             start_value, increment_rate, adj_pc, error, sound_names,
             current_index, current_sound, slider_vol, last_key, last_time,
             rating, current_volume, keys, broke>>

----------------------------------------------------------------------------
(* Bounds of the model *)

MaxPhonLen == 2
MaxFqLen == 2

----------------------------------------------------------------------------
(* The reference table, lines 164-289 *)

ParamsLiteral ==
    [f |-> <<200, 250, 315, 400, 500, 630, 800, 1000, 1250, 1600,
             2000, 2500, 3150, 4000, 5000, 6300, 8000, 10000, 12500, 16000,
             20000, 25000, 31500, 40000, 50000, 63000, 80000, 100000, 125000>>,
     alpha_f |-> <<635, 602, 569, 537, 509, 482, 456, 433, 412, 391,
                   373, 357, 343, 330, 320, 311, 303, 300, 295, 292,
                   290, 290, 289, 289, 289, 293, 303, 323, 354>>,
     L_U |-> <<-31500, -27200, -23100, -19300, -16100, -13100, -10400, -8200,
               -6300, -4600, -3200, -2100, -1200, -500, 0, 400, 500, 0,
               -2700, -4200, -1200, 1400, 2300, 1000, -2300, -7200, -11200,
               -10900, -3500>>,
     T_f |-> <<78100, 68700, 59500, 51100, 44000, 37500, 31500, 26500,
               22100, 17900, 14400, 11400, 8600, 6200, 4400, 3000, 2200, 2400,
               3500, 1700, -1300, -4200, -6000, -5400, -1500, 6000, 12600,
               13900, 12300>>]

\* The dict before line 164 has run
NoParams == [f |-> <<>>, alpha_f |-> <<>>, L_U |-> <<>>, T_f |-> <<>>]

----------------------------------------------------------------------------
(* Real arithmetic of numpy, in fixed point *)

\* 10^(d/10), 10^(d/100), 10^(d/1000) for d = 0..9, times 10^4
P10d1 == <<10000, 12589, 15849, 19953, 25119, 31623, 39811, 50119, 63096, 79433>>
P10d2 == <<10000, 10233, 10471, 10715, 10965, 11220, 11482, 11749, 12023, 12303>>
P10d3 == <<10000, 10023, 10046, 10069, 10093, 10116, 10139, 10162, 10186, 10209>>

\* 10 ** (x/1000) as m * 10^(e-4) with 10^4 <= m < 10^5
Pow10(x) ==
    LET r  == x % 1000
        m1 == P10d1[(r \div 100) + 1]
        m2 == P10d2[((r \div 10) % 10) + 1]
        m3 == P10d3[(r % 10) + 1]
    IN  [m |-> (((m1 * m2) \div 10000) * m3) \div 10000, e |-> x \div 1000]

\* v * 10^k
RECURSIVE Scale10(_, _)
Scale10(v, k) ==
    IF k = 0 THEN v
    ELSE IF k > 0 THEN Scale10(v * 10, k - 1)
    ELSE Scale10(v \div 10, k + 1)

\* 10 ** (x/1000), in millionths
Pow10Micro(x) == LET q == Pow10(x) IN Scale10(q.m, q.e + 2)

\* a = m * 10^k with 10^4 <= m < 10^5, for a >= 1
RECURSIVE Normalize(_, _)
Normalize(a, k) ==
    IF a < 10000 THEN Normalize(a * 10, k - 1)
    ELSE IF a >= 100000 THEN Normalize(a \div 10, k + 1)
    ELSE [m |-> a, k |-> k]

\* The largest digit d with table[d + 1] <= m
Digit(table, m) == Cardinality({d \in 1..10 : table[d] <= m}) - 1

\* np.log10 of a millionths value a >= 1, in thousandths: the digits of the
\* logarithm are read off the tables of 10 ** x, one decimal place at a time
Log10Micro(a) ==
    LET n  == Normalize(a, 0)
        d1 == Digit(P10d1, n.m)
        r1 == (n.m * 10000) \div P10d1[d1 + 1]
        d2 == Digit(P10d2, r1)
        r2 == (r1 * 10000) \div P10d2[d2 + 1]
        d3 == Digit(P10d3, r2)
    IN  1000 * (n.k - 2) + 100 * d1 + 10 * d2 + d3

\* The integer part of a thousandths value (C cast, towards zero), in thousandths
Truncate(v) == IF v >= 0 THEN (v \div 1000) * 1000 ELSE -(((-v) \div 1000) * 1000)

----------------------------------------------------------------------------
(* scipy.interpolate.interp1d(xs, ys, kind="cubic", fill_value="extrapolate")(x) *)
(* scipy fits one cubic spline through all the knots. Its two properties the  *)
(* code relies on are kept: the interpolant passes through every knot, and    *)
(* outside the table it continues the end cubic. Between knots the value is   *)
(* that of the cubic through the four knots around x, which differs from the  *)
(* spline's value by the spline's own smoothing; no property below depends on *)
(* an off-knot value beyond its being a real number.                          *)

\* (u * w) / 1000 for a thousandths value w, without leaving 32 bits
MulMilli(u, w) == u * (w \div 1000) + (u * (w % 1000)) \div 1000

\* The first of the four knots used for x
WindowStart(xs, x) ==
    LET n == Len(xs)
        k == Cardinality({i \in 1..n : xs[i] <= x})
    IN  IF k - 1 < 1 THEN 1 ELSE IF k - 1 > n - 3 THEN n - 3 ELSE k - 1

\* The Lagrange weight of knot xi against the knots x1, x2, x3, in thousandths
Weight(x, xi, x1, x2, x3) ==
    MulMilli(MulMilli(((x - x1) * 1000) \div (xi - x1),
                      ((x - x2) * 1000) \div (xi - x2)),
             ((x - x3) * 1000) \div (xi - x3))

\* The cubic through the knots a, a+1, a+2, a+3, at x
Cubic(xs, ys, x, a) ==
      MulMilli(ys[a],     Weight(x, xs[a],     xs[a + 1], xs[a + 2], xs[a + 3]))
    + MulMilli(ys[a + 1], Weight(x, xs[a + 1], xs[a],     xs[a + 2], xs[a + 3]))
    + MulMilli(ys[a + 2], Weight(x, xs[a + 2], xs[a],     xs[a + 1], xs[a + 3]))
    + MulMilli(ys[a + 3], Weight(x, xs[a + 3], xs[a],     xs[a + 1], xs[a + 2]))

Interp1d(xs, ys, x) == Cubic(xs, ys, x, WindowStart(xs, x))

\* interp1d evaluated at every element of a column
InterpColumn(xs, ys, col) == [i \in 1..Len(col) |-> Interp1d(xs, ys, col[i])] \o <<>>

----------------------------------------------------------------------------
(* The loudness formula, lines 329-336 *)

\* A_f of lines 329-331, in millionths
A_f(alpha_f, L_U, T_f, phon_p) ==
    LET loud  == (((Pow10Micro(25 * phon_p) - 1150000) \div 1000) * 447) \div 100
        \* (0.4 * 10**x) ** alpha_f = 10 ** (alpha_f * (log10(0.4) + x))
        expo  == ((((T_f + L_U) \div 10) - 9000 - 398) * alpha_f) \div 1000
    IN  loud + Pow10Micro(expo)

\* ((10 / alpha_f) * np.log10(A_f)) - L_U + 94 of line 334, in thousandths
SplFormula(alpha_f, L_U, T_f, phon_p) ==
    ((10000 * Log10Micro(A_f(alpha_f, L_U, T_f, phon_p))) \div alpha_f) - L_U + 94000

\* The value the branch of lines 333-336 assigns for one frequency
SplValue(alpha_f, L_U, T_f, phon_p) ==
    IF phon_p > 0 THEN SplFormula(alpha_f, L_U, T_f, phon_p) ELSE T_f

\* Storing a real into an array: an integer-dtype array keeps the integer part
AsType(v, int_dtype) == IF int_dtype THEN Truncate(v) ELSE v

----------------------------------------------------------------------------
(* numpy array operations used by lines 292-300 and 338-343 *)

\* np.tile(row, (reps, 1)): reps rows, each a copy of row
Tile(row, reps) == [j \in 1..reps |-> row]

\* M.T
Transpose(M) == [i \in 1..Len(M[1]) |-> [j \in 1..Len(M) |-> M[j][i]]]

\* np.zeros_like(M): the shape of M (and its dtype), all zero
ZerosLike(M) == [i \in 1..Len(M) |-> [j \in 1..Len(M[i]) |-> 0]]

\* M[:, j]
Column(M, j) == [i \in 1..Len(M) |-> M[i][j]]

\* M[:, j] = col
SetColumn(M, j, col) == [i \in 1..Len(M) |-> [M[i] EXCEPT ![j] = col[i]]]

\* The elements of M in column-major order, under the shape dims
ReshapeColumnMajor(M, dims) ==
    LET n == Len(M)
        m == Len(M[1])
    IN  [shape |-> dims,
         data  |-> [k \in 1..(n * m) |-> M[((k - 1) % n) + 1][((k - 1) \div n) + 1]]]

\* M.reshape(dims): the elements of M in row-major order, under the shape dims
Reshape(M, dims) ==
    LET m == Len(M[1])
    IN  [shape |-> dims,
         data  |-> [k \in 1..(Len(M) * m) |-> M[((k - 1) \div m) + 1][((k - 1) % m) + 1]]]

\* np.squeeze(arr): the axes of length one removed
Squeeze(arr) == [shape |-> SelectSeq(arr.shape, LAMBDA d : d # 1), data |-> arr.data]

\* Element (i, j) of a two-dimensional array
At(arr, i, j) == arr.data[(i - 1) * arr.shape[2] + j]

----------------------------------------------------------------------------
(* The input checks, lines 10-33 *)

\* Lines 11-18
PhonWarnings(ph) ==
    IF (\E i \in 1..Len(ph) : ph[i] > 80) THEN {"above 80 phon"}
    ELSE IF (\E i \in 1..Len(ph) : ph[i] # 0 /\ ph[i] < 20) THEN {"below 20 phon"}
    ELSE {}

\* Lines 21-32 (fq is not None)
FqWarnings(ph, freqs) ==
    IF (\E i \in 1..Len(freqs) : freqs[i] < 200 \/ freqs[i] > 40000) /\ (\E i \in 1..Len(ph) : ph[i] > 90)
    THEN {"20-4000 Hz only up to 90 phon"}
    ELSE IF (\E i \in 1..Len(freqs) : freqs[i] < 50000 \/ freqs[i] > 125000) /\ (\E i \in 1..Len(ph) : ph[i] > 80)
    THEN {"5000-12500 Hz only up to 80 phon"}
    ELSE IF (\E i \in 1..Len(freqs) : freqs[i] > 125000)
    THEN {"defined up to 12.5 kHz"}
    ELSE {}

\* np.any(fq >= 0)
FrequenciesValidAny(freqs) == (\E i \in 1..Len(freqs) : freqs[i] >= 0)

\* Line 33: np.all(fq >= 0)
FrequenciesValid(freqs) == \A i \in 1..Len(freqs) : freqs[i] >= 0

----------------------------------------------------------------------------
(* The table the interpolation runs over, lines 304-313 *)

\* np.any(f_squeeze[:, p] >= 12500)
UseExtendedInclusive(col) == (\E i \in 1..Len(col) : col[i] >= 125000)

\* Line 304: np.any(f_squeeze[:, p] > 12500)
UseExtended(col) == (\E i \in 1..Len(col) : col[i] > 125000)

\* Line 305: the frequency of the synthetic anchor
AnchorFrequency == 200000

\* Lines 306-308: params[key] + [params[key][mirror]]
Mirrored(column, m) == column \o <<column[m + 1]>>

\* The three interpolations with the L_U and T_f columns exchanged
InterpCoefficientsMixed(f_r_extrap, alpha_f_r_extrap, L_U_r_extrap, T_f_r_extrap, col) ==
    [points  |-> Len(f_r_extrap),
     alpha_f |-> InterpColumn(f_r_extrap, alpha_f_r_extrap, col),
     L_U     |-> InterpColumn(f_r_extrap, T_f_r_extrap, col),
     T_f     |-> InterpColumn(f_r_extrap, L_U_r_extrap, col)]

\* Lines 315-323: the three interpolations, alpha_f from the alpha_f column,
\* L_U from the L_U column, T_f from the T_f column
InterpCoefficients(f_r_extrap, alpha_f_r_extrap, L_U_r_extrap, T_f_r_extrap, col) ==
    [points  |-> Len(f_r_extrap),
     alpha_f |-> InterpColumn(f_r_extrap, alpha_f_r_extrap, col),
     L_U     |-> InterpColumn(f_r_extrap, L_U_r_extrap, col),
     T_f     |-> InterpColumn(f_r_extrap, T_f_r_extrap, col)]

\* Lines 303-327: the coefficients at the frequencies of column col
Coefficients(prm, none, col, m) ==
    IF none THEN [points |-> Len(prm.f), alpha_f |-> prm.alpha_f,
                  L_U |-> prm.L_U, T_f |-> prm.T_f]
    ELSE IF UseExtended(col)
    THEN InterpCoefficients(prm.f \o <<AnchorFrequency>>, Mirrored(prm.alpha_f, m),
                            Mirrored(prm.L_U, m), Mirrored(prm.T_f, m), col)
    ELSE InterpCoefficients(prm.f, prm.alpha_f, prm.L_U, prm.T_f, col)

----------------------------------------------------------------------------
(* The volume formula of normalize_loudness_direct, line 373 *)

\* ((a / 0.1) / (10 ** (b / 20))) * (10 ** (spl / 20)), in millionths
VolumeOf(spl, a, b) ==
    LET den == Pow10(b \div 20)
        num == Pow10(spl \div 20)
        q   == ((a * 10) * 100000) \div den.m
    IN  Scale10(q * (num.m \div 10), num.e - den.e - 1)

----------------------------------------------------------------------------
(* Inputs *)

PhonLevels == {-5, 0, 10, 40, 95}

FqValues == {-10, 160, 10000, 125000, 160000, 200000}

MirrorValues == {0, 17}

SeqsUpTo(S, n) == UNION {[1..k -> S] : k \in 1..n}

WholeHertz(freqs) == \A i \in 1..Len(freqs) : freqs[i] % 10 = 0

NoResult == [returned |-> FALSE,
             spl |-> [shape |-> <<>>, data |-> <<>>],
             f   |-> [shape |-> <<>>, data |-> <<>>],
             params |-> NoParams]

VolumeIdle == v_pc = "idle" /\ v_a = 0 /\ v_b = 0 /\ v_spl = 0 /\ volumes = 0

AdjustIdle ==
    /\ is_windows = FALSE /\ sounds_dict = <<>> /\ reference_sound_file = FALSE
    /\ lang = "en" /\ shuffle = FALSE /\ start_value = 0 /\ increment_rate = 0
    /\ adj_pc = "idle" /\ error = "none" /\ sound_names = <<>>
    /\ current_index = 0 /\ current_sound = 0 /\ slider_vol = <<>>
    /\ last_key = "None" /\ last_time = "None" /\ rating = -1
    /\ current_volume = 0 /\ keys = <<>> /\ broke = FALSE

Init ==
    /\ phon \in SeqsUpTo(PhonLevels, MaxPhonLen)
    /\ \/ fq_none = TRUE /\ fq = <<>> /\ fq_int = FALSE
       \/ fq_none = FALSE /\ fq = ParamsLiteral.f /\ fq_int = FALSE
       \/ fq_none = FALSE /\ fq \in SeqsUpTo(FqValues, MaxFqLen) /\ fq_int \in BOOLEAN
    /\ fq_int => WholeHertz(fq)
    /\ sq \in BOOLEAN
    /\ mirror \in MirrorValues
    /\ pc = "check"
    /\ warnings = {}
    /\ params = NoParams
    /\ f_squeeze = <<>>
    /\ spl_squeeze = <<>>
    /\ p = 0
    /\ trace = <<>>
    /\ result = NoResult
    /\ VolumeIdle
    /\ AdjustIdle

----------------------------------------------------------------------------
(* iso226 *)

\* Lines 10-33: the warnings, then the assertion
CheckInput ==
    /\ pc = "check"
    /\ warnings' = PhonWarnings(phon) \cup (IF fq_none THEN {} ELSE FqWarnings(phon, fq))
    /\ pc' = IF fq_none \/ FrequenciesValid(fq) THEN "calculate" ELSE "error"
    /\ UNCHANGED <<phon, fq_none, fq, fq_int, sq, mirror, params, f_squeeze,
                   spl_squeeze, p, trace, result>>
    /\ UNCHANGED volVars
    /\ UNCHANGED adjVars

\* Lines 164-300: the table, f, f_squeeze and spl_squeeze
Calculate ==
    /\ pc = "calculate"
    /\ params' = ParamsLiteral
    /\ LET f == IF fq_none THEN params'.f ELSE fq
       IN  /\ f_squeeze' = Transpose(Tile(f, Len(phon)))
           /\ spl_squeeze' = ZerosLike(f_squeeze')
    /\ p' = 1
    /\ pc' = "loop"
    /\ UNCHANGED <<phon, fq_none, fq, fq_int, sq, mirror, warnings, trace, result>>
    /\ UNCHANGED volVars
    /\ UNCHANGED adjVars

\* Lines 302-336: one iteration of the loop over the phon levels
LoopIteration ==
    /\ pc = "loop"
    /\ p <= Len(phon)
    /\ \E co \in {Coefficients(params, fq_none, Column(f_squeeze, p), mirror)} :
       \E real \in {[i \in 1..Len(f_squeeze) |->
                       SplValue(co.alpha_f[i], co.L_U[i], co.T_f[i], phon[p])] \o <<>>} :
           /\ spl_squeeze' = SetColumn(spl_squeeze, p,
                               [i \in 1..Len(f_squeeze) |->
                                   AsType(real[i], ~fq_none /\ fq_int)])
           /\ trace' = Append(trace,
                          [points  |-> co.points,
                           branch  |-> IF phon[p] > 0 THEN "formula" ELSE "T_f",
                           alpha_f |-> co.alpha_f,
                           L_U     |-> co.L_U,
                           T_f     |-> co.T_f,
                           value   |-> real])
    /\ p' = p + 1
    /\ UNCHANGED <<phon, fq_none, fq, fq_int, sq, mirror, pc, warnings, params,
                   f_squeeze, result>>
    /\ UNCHANGED volVars
    /\ UNCHANGED adjVars

\* Lines 338-345: reshape, squeeze on request, return
Return ==
    /\ pc = "loop"
    /\ p > Len(phon)
    /\ LET out_dims == <<Len(f_squeeze), Len(phon)>>
           f   == Reshape(f_squeeze, out_dims)
           spl == Reshape(spl_squeeze, out_dims)
       IN  result' = [returned |-> TRUE,
                      spl    |-> IF sq THEN Squeeze(spl) ELSE spl,
                      f      |-> IF sq THEN Squeeze(f) ELSE f,
                      params |-> params]
    /\ pc' = "done"
    /\ UNCHANGED <<phon, fq_none, fq, fq_int, sq, mirror, warnings, params,
                   f_squeeze, spl_squeeze, p, trace>>
    /\ UNCHANGED volVars
    /\ UNCHANGED adjVars

Next == CheckInput \/ Calculate \/ LoopIteration \/ Return

Spec == Init /\ [][Next]_vars

----------------------------------------------------------------------------
(* The volume formula applied to given SPL values *)

MaxSplStep == 26

SplInputs == {5000 * k : k \in 0..MaxSplStep} \cup {111800}

IsoIdle ==
    /\ phon = <<0>> /\ fq_none = TRUE /\ fq = <<>> /\ fq_int = FALSE
    /\ sq = FALSE /\ mirror = 0 /\ pc = "idle" /\ warnings = {}
    /\ params = NoParams /\ f_squeeze = <<>> /\ spl_squeeze = <<>>
    /\ p = 0 /\ trace = <<>> /\ result = NoResult

InitVolume ==
    /\ IsoIdle
    /\ v_pc = "spl"
    /\ v_a \in {340, 200}
    /\ v_b \in {111800, 100000}
    /\ v_spl \in SplInputs
    /\ volumes = 0
    /\ AdjustIdle

\* Line 373
ComputeVolumes ==
    /\ v_pc = "spl"
    /\ volumes' = VolumeOf(v_spl, v_a, v_b)
    /\ v_pc' = "done"
    /\ UNCHANGED <<v_a, v_b, v_spl>>
    /\ UNCHANGED isoVars
    /\ UNCHANGED adjVars

NextVolume == ComputeVolumes

SpecVolume == InitVolume /\ [][NextVolume]_vars

----------------------------------------------------------------------------
(* Properties of iso226 *)

HasNegative == ~fq_none /\ \E i \in 1..Len(fq) : fq[i] < 0

AboveTable == ~fq_none /\ \E i \in 1..Len(fq) : fq[i] > 125000

\* C1: a call whose frequency sequence holds a negative value ends in an
\* error: it never gets past the input check, computes no SPL value and
\* returns nothing.
C1_NegativeFrequencyRejected ==
    HasNegative =>
        /\ pc \in {"check", "error"}
        /\ spl_squeeze = <<>>
        /\ trace = <<>>
        /\ ~result.returned

C1_Witness ==
    /\ pc = "error"
    /\ HasNegative
    /\ \E i \in 1..Len(fq) : fq[i] >= 0

\* C2: the closed-form expression is used exactly for the phon levels p > 0,
\* and for p = 0 the SPL written to the result is the threshold coefficient
\* T_f of each frequency.
C2_ThresholdIsTf ==
    \A q \in 1..Len(trace) :
        /\ trace[q].branch = "formula" <=> phon[q] > 0
        /\ phon[q] = 0 =>
              \A i \in 1..Len(spl_squeeze) : spl_squeeze[i][q] = trace[q].T_f[i]

\* C3 as amended: with sq false, the SPL array and the frequency array
\* returned for a frequency sequence fq have the shape len(fq) x len(phon) and
\* the frequency at (i, j) is fq[i]; with sq true the axes of length one are
\* removed and the elements keep that order.
C3_ShapeAndPairing ==
    (result.returned /\ ~fq_none) =>
        LET dims == <<Len(fq), Len(phon)>>
            want == IF sq THEN SelectSeq(dims, LAMBDA d : d # 1) ELSE dims
        IN  /\ result.f.shape = want
            /\ result.spl.shape = want
            /\ Len(result.spl.data) = Len(fq) * Len(phon)
            /\ \A i \in 1..Len(fq) : \A j \in 1..Len(phon) :
                   result.f.data[(i - 1) * Len(phon) + j] = fq[i]

C3_Witness ==
    /\ result.returned
    /\ ~fq_none
    /\ ~sq
    /\ Len(fq) = 2
    /\ Len(phon) = 2
    /\ fq[1] > fq[2]

\* C3 as stated: for any frequency sequence and any phon sequence the two
\* returned arrays have the shape len(fq) x len(phon), and the frequency at
\* (i, j) is fq[i].
C3_Original ==
    (result.returned /\ ~fq_none) =>
        /\ result.f.shape = <<Len(fq), Len(phon)>>
        /\ result.spl.shape = <<Len(fq), Len(phon)>>
        /\ \A i \in 1..Len(fq) : \A j \in 1..Len(phon) : At(result.f, i, j) = fq[i]

\* C4: at a queried frequency of 20000 Hz the three coefficients used are
\* those of the table row the mirror index selects, and the SPL written for
\* every phon level is the SPL that row yields for the level.
C4_AnchorIsMirrorRow ==
    \A q \in 1..Len(trace) : \A i \in 1..Len(fq) :
        fq[i] = AnchorFrequency =>
            /\ trace[q].alpha_f[i] = ParamsLiteral.alpha_f[mirror + 1]
            /\ trace[q].L_U[i] = ParamsLiteral.L_U[mirror + 1]
            /\ trace[q].T_f[i] = ParamsLiteral.T_f[mirror + 1]
            /\ spl_squeeze[i][q] = SplValue(ParamsLiteral.alpha_f[mirror + 1],
                                            ParamsLiteral.L_U[mirror + 1],
                                            ParamsLiteral.T_f[mirror + 1], phon[q])

\* C5: called with the table's own 29 frequencies, iso226 yields for every
\* phon level the SPL values that the call without frequencies computes from
\* the table columns.
C5_KnotsAgreeWithTable ==
    (~fq_none /\ fq = ParamsLiteral.f) =>
        LET direct == Coefficients(ParamsLiteral, TRUE, ParamsLiteral.f, mirror)
        IN  \A q \in 1..Len(trace) : \A i \in 1..Len(fq) :
                spl_squeeze[i][q] =
                    SplValue(direct.alpha_f[i], direct.L_U[i], direct.T_f[i], phon[q])

C5_Witness ==
    /\ result.returned
    /\ ~fq_none
    /\ fq = ParamsLiteral.f
    /\ Len(phon) = 2
    /\ phon[1] > 0
    /\ phon[2] = 0

\* C7: when some queried frequency is above 12500 Hz and none is negative,
\* the warning that the model is defined only up to 12.5 kHz is printed,
\* whatever the phon levels are.
C7_AboveTableWarned ==
    (pc # "check" /\ AboveTable /\ ~HasNegative) => "defined up to 12.5 kHz" \in warnings

\* C8: for phon levels that are not negative, the "below 20 phon" warning
\* is printed exactly when some level is strictly between 0 and 20,
\* whatever the other levels of the call are.
C8_Below20Warned ==
    (pc # "check" /\ \A q \in 1..Len(phon) : phon[q] >= 0) =>
        ("below 20 phon" \in warnings
            <=> \E q \in 1..Len(phon) : phon[q] > 0 /\ phon[q] < 20)

\* C9: an iteration interpolates over the 30-point table exactly when
\* frequencies were supplied and one of them exceeds 12500 Hz, and over the 29
\* table rows otherwise; the dict params keeps its 29 rows throughout and is
\* returned unchanged.
C9_ExtendedOnlyAboveTable ==
    /\ \A q \in 1..Len(trace) : trace[q].points = IF AboveTable THEN 30 ELSE 29
    /\ params \in {NoParams, ParamsLiteral}
    /\ pc \in {"loop", "done"} => params = ParamsLiteral
    /\ result.returned => result.params = ParamsLiteral

C9_Witness ==
    /\ result.returned
    /\ Len(trace) = 2
    /\ trace[1].points = 30
    /\ trace[2].points = 30
    /\ params = ParamsLiteral

\* C10: for every phon level p > 0 the SPL stored in the result is the real
\* value the loop computed, for real-typed and for integer-typed frequencies.
C10_StoredIsComputed ==
    \A q \in 1..Len(trace) : \A i \in 1..Len(spl_squeeze) :
        phon[q] > 0 =>
            /\ spl_squeeze[i][q] = trace[q].value[i]
            /\ result.returned =>
                  result.spl.data[(i - 1) * Len(phon) + q] = trace[q].value[i]

----------------------------------------------------------------------------
(* Properties of the volume formula *)

\* What line 373 computes at spl = b: a / 0.1, to a thousandth
VolumeAtCalibrationPoint ==
    (v_pc = "done" /\ v_spl = v_b) =>
        /\ volumes - v_a * 10000 <= 1000
        /\ v_a * 10000 - volumes <= 1000

\* C6: with the default calibration (a = 0.34, b = 111.8) the volume of an
\* SPL of 111.8 is 0.34 (to a thousandth).
C6_CalibrationFixedPoint ==
    (v_pc = "done" /\ v_a = 340 /\ v_b = 111800 /\ v_spl = 111800) =>
        /\ volumes - 340000 <= 1000
        /\ 340000 - volumes <= 1000

----------------------------------------------------------------------------
(* What the code does where a property above fails *)

IntegerTyped == ~fq_none /\ fq_int

\* With real-typed frequencies (or none) the stored SPL is the computed one,
\* the threshold is T_f and the anchor yields the SPL of the mirrored row
RealTypedStoredIsComputed ==
    ~IntegerTyped => (C2_ThresholdIsTf /\ C4_AnchorIsMirrorRow /\ C10_StoredIsComputed)

\* With integer-typed frequencies the stored SPL is the integer part of the
\* computed one
IntegerTypedStoredIsTruncated ==
    IntegerTyped =>
        \A q \in 1..Len(trace) : \A i \in 1..Len(spl_squeeze) :
            spl_squeeze[i][q] = Truncate(trace[q].value[i])

\* The warning of lines 29-32 is printed exactly when some frequency exceeds
\* 12500 Hz and no phon level is above 80
CodeAboveTableWarned ==
    pc # "check" =>
        ("defined up to 12.5 kHz" \in warnings
            <=> (AboveTable /\ \A q \in 1..Len(phon) : phon[q] <= 80))

\* The warning of lines 15-18 is printed exactly when no phon level is above
\* 80 and some level is below 20 and not 0
CodeBelow20Warned ==
    pc # "check" =>
        ("below 20 phon" \in warnings
            <=> /\ \A q \in 1..Len(phon) : phon[q] <= 80
                /\ \E q \in 1..Len(phon) : phon[q] # 0 /\ phon[q] < 20)

----------------------------------------------------------------------------
(* VolumeAdjuster.adjust_volume                                            *)
(* Sounds are named 1, 2, ...; volumes and slider ratings are in halves    *)
(* (1.0 = 2); the clock is kept as the relation of last_time to it.        *)

MaxSounds == 2

MaxKeys == 2

KeyNames == {"1", "2", "space"}

KeyLists == UNION {[1..k -> KeyNames] : k \in 0..MaxKeys}

Shuffles(names) ==
    {s \in [1..Len(names) -> 1..Len(names)] :
        \A i, j \in 1..Len(names) : s[i] = s[j] => i = j}

\* "x or self.start_value" of lines 160 and 209: None and 0.0 are both falsy
OrStartValue(x) == IF x = -1 \/ x = 0 THEN start_value ELSE x

\* _handle_key_press
HandleKeyPress(key, lk, lt) ==
    IF key = "2" /\ reference_sound_file
    THEN [last_key  |-> IF lk # "2" THEN "2" ELSE "None",
          last_time |-> IF lk # "2" THEN "recent" ELSE "None"]
    ELSE IF key = "1"
    THEN [last_key  |-> IF lk # "1" THEN "1" ELSE "None",
          last_time |-> IF lk # "1" THEN "recent" ELSE "None"]
    ELSE [last_key |-> lk, last_time |-> lt]

\* slider_vol[name] = volume
SetItem(d, name, volume) ==
    [n \in DOMAIN d \cup {name} |-> IF n = name THEN volume ELSE d[n]]

\* sound_names[i] raises IndexError outside 0 .. len - 1
InRange(i) == i >= 0 /\ i < Len(sound_names)

InitAdjust ==
    /\ IsoIdle
    /\ VolumeIdle
    /\ is_windows \in BOOLEAN
    /\ sounds_dict \in {[i \in 1..n |-> i] : n \in 0..MaxSounds}
    /\ reference_sound_file \in BOOLEAN
    /\ lang \in {"en", "fr", "de"}
    /\ shuffle \in BOOLEAN
    /\ start_value = 1
    /\ increment_rate = 1
    /\ adj_pc = "setup"
    /\ error = "none"
    /\ sound_names = <<>>
    /\ current_index = 0
    /\ current_sound = 0
    /\ slider_vol = <<>>
    /\ last_key = "None"
    /\ last_time = "None"
    /\ rating = -1
    /\ current_volume = 0
    /\ keys = <<>>
    /\ broke = FALSE

\* Lines 167-193: window, slider, instruction text, sound_names and the locals
Setup ==
    /\ adj_pc = "setup"
    /\ IF lang \notin {"en", "fr"}
       THEN /\ error' = "UnboundLocalError"
            /\ adj_pc' = "error"
            /\ UNCHANGED <<sound_names, current_sound>>
       ELSE /\ sound_names' \in IF shuffle THEN Shuffles(sounds_dict) ELSE {sounds_dict}
            /\ IF is_windows /\ Len(sounds_dict) = 0
               THEN error' = "IndexError" /\ adj_pc' = "error" /\ current_sound' = 0
               ELSE /\ current_sound' = IF is_windows THEN sound_names'[1] ELSE 0
                    /\ error' = "none"
                    /\ adj_pc' = "loop"
    /\ UNCHANGED <<is_windows, sounds_dict, reference_sound_file, lang, shuffle,
                   start_value, increment_rate, current_index, slider_vol,
                   last_key, last_time, rating, current_volume, keys, broke>>
    /\ UNCHANGED isoVars
    /\ UNCHANGED volVars

\* Lines 195-206: loop test, drawing (the mouse may move the slider, time
\* passes during the flip), then the escape test
Draw ==
    /\ adj_pc = "loop"
    /\ current_index < Len(sounds_dict)
    /\ rating' \in {rating} \cup {0, 1, 2}
    /\ last_time' \in IF last_time = "recent" THEN {"recent", "due"} ELSE {last_time}
    /\ \E escape \in BOOLEAN :
          /\ broke' = escape
          /\ adj_pc' = IF escape THEN "close" ELSE "update"
    /\ UNCHANGED <<is_windows, sounds_dict, reference_sound_file, lang, shuffle,
                   start_value, increment_rate, error, sound_names, current_index,
                   current_sound, slider_vol, last_key, current_volume, keys>>
    /\ UNCHANGED isoVars
    /\ UNCHANGED volVars

\* Lines 208-209 with _update_volume
UpdateVolume ==
    /\ adj_pc = "update"
    /\ \E arrow \in {"none", "up", "down"} :
          rating' =
             IF arrow = "up"
             THEN (IF OrStartValue(rating) + increment_rate < 2
                   THEN OrStartValue(rating) + increment_rate ELSE 2)
             ELSE IF arrow = "down"
             THEN (IF OrStartValue(rating) - increment_rate > 0
                   THEN OrStartValue(rating) - increment_rate ELSE 0)
             ELSE rating
    /\ current_volume' = OrStartValue(rating')
    /\ adj_pc' = "getkeys"
    /\ UNCHANGED <<is_windows, sounds_dict, reference_sound_file, lang, shuffle,
                   start_value, increment_rate, error, sound_names, current_index,
                   current_sound, slider_vol, last_key, last_time, keys, broke>>
    /\ UNCHANGED isoVars
    /\ UNCHANGED volVars

\* Line 214
GetKeys ==
    /\ adj_pc = "getkeys"
    /\ keys' \in KeyLists
    /\ adj_pc' = "keys"
    /\ UNCHANGED <<is_windows, sounds_dict, reference_sound_file, lang, shuffle,
                   start_value, increment_rate, error, sound_names, current_index,
                   current_sound, slider_vol, last_key, last_time, rating,
                   current_volume, broke>>
    /\ UNCHANGED isoVars
    /\ UNCHANGED volVars

\* Lines 215-226: one pass of "for key in keys"
HandleKey ==
    /\ adj_pc = "keys"
    /\ keys # <<>>
    /\ IF Head(keys) \in {"1", "2"}
       THEN /\ last_key' = HandleKeyPress(Head(keys), last_key, last_time).last_key
            /\ last_time' = HandleKeyPress(Head(keys), last_key, last_time).last_time
            /\ keys' = Tail(keys)
            /\ UNCHANGED <<adj_pc, error, current_index, current_sound,
                           slider_vol, rating>>
       ELSE IF ~InRange(current_index)
       THEN /\ error' = "IndexError"
            /\ adj_pc' = "error"
            /\ UNCHANGED <<current_index, current_sound, slider_vol, last_key,
                           last_time, rating, keys>>
       ELSE /\ slider_vol' = SetItem(slider_vol, sound_names[current_index + 1],
                                     current_volume)
            /\ current_index' = current_index + 1
            /\ IF current_index' < Len(sounds_dict)
               THEN /\ current_sound' = IF is_windows
                                         THEN sound_names[current_index' + 1]
                                         ELSE current_sound
                    /\ rating' = -1
               ELSE UNCHANGED <<current_sound, rating>>
            /\ keys' = Tail(keys)
            /\ UNCHANGED <<adj_pc, error, last_key, last_time>>
    /\ UNCHANGED <<is_windows, sounds_dict, reference_sound_file, lang, shuffle,
                   start_value, increment_rate, sound_names, current_volume, broke>>
    /\ UNCHANGED isoVars
    /\ UNCHANGED volVars

\* Lines 228-256: repeat playback of the reference or the current sound
Playback ==
    /\ adj_pc = "keys"
    /\ keys = <<>>
    /\ IF last_key = "2" /\ reference_sound_file /\ last_time = "due"
       THEN last_time' = "recent" /\ adj_pc' = "loop" /\ UNCHANGED error
       ELSE IF last_key = "1" /\ last_time = "due"
       THEN IF ~is_windows /\ ~InRange(current_index)
            THEN error' = "IndexError" /\ adj_pc' = "error" /\ UNCHANGED last_time
            ELSE last_time' = "recent" /\ adj_pc' = "loop" /\ UNCHANGED error
       ELSE adj_pc' = "loop" /\ UNCHANGED <<error, last_time>>
    /\ UNCHANGED <<is_windows, sounds_dict, reference_sound_file, lang, shuffle,
                   start_value, increment_rate, sound_names, current_index,
                   current_sound, slider_vol, last_key, rating, current_volume,
                   keys, broke>>
    /\ UNCHANGED isoVars
    /\ UNCHANGED volVars

\* Lines 258-259, after the loop test failed or after break
ReturnVolumes ==
    /\ \/ adj_pc = "loop" /\ ~(current_index < Len(sounds_dict))
       \/ adj_pc = "close"
    /\ adj_pc' = "returned"
    /\ UNCHANGED <<is_windows, sounds_dict, reference_sound_file, lang, shuffle,
                   start_value, increment_rate, error, sound_names, current_index,
                   current_sound, slider_vol, last_key, last_time, rating,
                   current_volume, keys, broke>>
    /\ UNCHANGED isoVars
    /\ UNCHANGED volVars

NextAdjust ==
    Setup \/ Draw \/ UpdateVolume \/ GetKeys \/ HandleKey \/ Playback \/ ReturnVolumes

SpecAdjust == InitAdjust /\ [][NextAdjust]_vars

----------------------------------------------------------------------------
(* Properties of adjust_volume *)

\* the next key event to be handled is a 'space'
SpaceEvent == adj_pc = "keys" /\ keys # <<>> /\ Head(keys) = "space"

\* the repeat playback of lines 242-255 is about to build the current sound
\* from its file path
PlaysFromPath ==
    /\ adj_pc = "keys" /\ keys = <<>>
    /\ ~(last_key = "2" /\ reference_sound_file /\ last_time = "due")
    /\ last_key = "1" /\ last_time = "due"
    /\ ~is_windows

\* the sounds passed with 'space' so far
Passed == {sound_names[i] : i \in 1..current_index}

Loaded == {sounds_dict[i] : i \in 1..Len(sounds_dict)}

\* C11: every 'space' key event stores the current volume under the name of
\* the current sound and moves current_index on by exactly one; and the
\* dictionary adjust_volume returns has one entry for every loaded sound
\* when the loop ended because all sounds were passed, and entries for the
\* passed sounds only when the loop was left with 'escape'.
C11_SpaceRecordsAndAdvances ==
    [][/\ SpaceEvent =>
            /\ current_index' = current_index + 1
            /\ DOMAIN slider_vol' = DOMAIN slider_vol \cup {sound_names[current_index']}
            /\ slider_vol'[sound_names[current_index']] = current_volume
       /\ adj_pc' = "returned" =>
            /\ ~broke' => DOMAIN slider_vol' = Loaded
            /\ broke' => DOMAIN slider_vol' = Passed']_vars

\* C12: whenever sound_names[current_index] is about to be read, for a
\* 'space' or for the repeat playback from the file path, current_index is
\* less than the number of loaded sounds.
C12_IndexInRangeWhenRead ==
    (SpaceEvent \/ PlaysFromPath) => current_index < Len(sounds_dict)

----------------------------------------------------------------------------
(* Observed behaviour of adjust_volume *)

\* a 'space' met with a sound still left records and advances, and what is
\* returned is as C11 says
CodeSpaceRecordsInRange ==
    [][/\ SpaceEvent /\ InRange(current_index) =>
            /\ current_index' = current_index + 1
            /\ DOMAIN slider_vol' = DOMAIN slider_vol \cup {sound_names[current_index']}
            /\ slider_vol'[sound_names[current_index']] = current_volume
       /\ adj_pc' = "returned" =>
            /\ ~broke' => DOMAIN slider_vol' = Loaded
            /\ broke' => DOMAIN slider_vol' = Passed']_vars

\* the entries of slider_vol are those of the passed sounds, and the index
\* never goes beyond the number of sounds
CodeEntriesArePassed ==
    /\ current_index <= Len(sounds_dict)
    /\ adj_pc \notin {"setup", "idle"} /\ error # "UnboundLocalError"
          => DOMAIN slider_vol = Passed

\* reachable: a 'space' is delivered after the last sound was passed in the
\* same iteration
SpaceBeyondLast == SpaceEvent /\ current_index = Len(sounds_dict)

\* reachable: the repeat playback from the file path comes due in the
\* iteration that passed the last sound
PlaybackBeyondLast == PlaysFromPath /\ current_index = Len(sounds_dict)

\* an IndexError comes from line 187 (Windows, no sounds), line 221 or
\* line 250 only, and on Windows never from the repeat playback
CodeIndexErrorOnlyThere ==
    error = "IndexError" =>
        /\ adj_pc = "error"
        /\ \/ is_windows /\ Len(sounds_dict) = 0 /\ sound_names = <<>>
           \/ /\ keys # <<>> /\ Head(keys) = "space"
              /\ sound_names # <<>> /\ current_index = Len(sounds_dict)
           \/ /\ keys = <<>> /\ last_key = "1" /\ last_time = "due" /\ ~is_windows
              /\ sound_names # <<>> /\ current_index = Len(sounds_dict)

====
